---- MODULE Spec2Model ----
(***************************************************************************)
(* Model of the `location` crate (location/src/lib.rs): resolution of the  *)
(* nine application directories from environment variables and the         *)
(* platform's conventions (ProjectDirsOrEnv::new), and the process-wide    *)
(* write-once publication generated by the location! macro (initialize,    *)
(* the per-kind accessors, the memoized derived accessors).                *)
(***************************************************************************)
EXTENDS Integers, Sequences, FiniteSets, TLC

(* ------------------------------ bounds --------------------------------- *)

\* number of threads that call into the generated module concurrently
NumThreads == 2

Threads == 1..NumThreads

(* --------------------------- data: options ----------------------------- *)

\* Option<T>: None is the empty set, Some(v) the singleton
None == {}

Some(v) == {v}

IsSome(o) == o # {}

Unwrap(o) == CHOOSE v \in o : TRUE

\* Option::unwrap_or
UnwrapOr(o, d) == IF o # {} THEN Unwrap(o) ELSE d

(* ------------------------ data: directory kinds ------------------------ *)

\* the nine fields, in the order Env::new looks them up
Fields == << "cache_dir", "config_dir", "config_local_dir", "data_dir",
             "data_local_dir", "preference_dir", "project_path",
             "runtime_dir", "state_dir" >>

Kinds == { Fields[i] : i \in 1..Len(Fields) }

\* fields of type PathBuf in EnvParity / ProjectDirsOrEnv
Mandatory == { "cache_dir", "config_dir", "config_local_dir", "data_dir",
               "data_local_dir", "preference_dir", "project_path" }

\* fields of type Option<PathBuf> in EnvParity / ProjectDirsOrEnv
Optional == { "runtime_dir", "state_dir" }

\* the suffix Env::new passes to its closure for each field
Suffix(k) ==
    CASE k = "cache_dir"        -> "_CACHE_DIR"
      [] k = "config_dir"       -> "_CONFIG_DIR"
      [] k = "config_local_dir" -> "_CONFIG_LOCAL_DIR"
      [] k = "data_dir"         -> "_DATA_DIR"
      [] k = "data_local_dir"   -> "_DATA_LOCAL_DIR"
      [] k = "preference_dir"   -> "_PREFERENCE_DIR"
      [] k = "project_path"     -> "_PROJECT_PATH"
      [] k = "runtime_dir"      -> "_RUNTIME_DIR"
      [] k = "state_dir"        -> "_STATE_DIR"

\* format!("{env_prefix}{suffix}"): the prefix is one fixed literal per module
Key(k) == << "PREFIX", Suffix(k) >>

(* ------------------------- data: the environment ----------------------- *)

\* An environment gives every variable one of three conditions: not set,
\* set to valid unicode, set to bytes that are not valid unicode.
VarStates == { "unset", "unicode", "not_unicode" }

AllEnvironments == [Kinds -> VarStates]

\* the text a variable holds when it is valid unicode
Text(k) == << "text", Suffix(k) >>

\* the raw OsString a variable holds when it is not valid unicode
Raw(k) == << "raw", Suffix(k) >>

\* std::env::var(&key)
env_var(env, k) ==
    CASE env[k] = "unicode"     -> [tag |-> "Ok", value |-> Text(k)]
      [] env[k] = "unset"       -> [tag |-> "NotPresent", value |-> <<>>]
      [] env[k] = "not_unicode" -> [tag |-> "NotUnicode", value |-> Raw(k)]

\* PathBuf::from(String) / PathBuf::from(&Path): an owned path of the same bytes
PathBuf_from(s) == [path |-> s]

(* --------------------------- data: the platform ------------------------ *)

\* What directories::ProjectDirs::from finds: no home directory at all, or
\* the seven mandatory directories plus whichever optional ones the OS has.
NoHome == [home |-> FALSE, runtime_dir |-> FALSE, state_dir |-> FALSE]

Platforms == {NoHome} \cup
    { [home |-> TRUE, runtime_dir |-> r, state_dir |-> s] : r, s \in BOOLEAN }

\* the path the platform's conventions give for a kind
PlatformPath(k) == << "platform", k >>

\* impl Provider for ProjectDirs: the nine accessors of a found ProjectDirs
ProjectDirs_get(platform, k) ==
    IF k \in Mandatory \/ platform[k] THEN Some(PlatformPath(k)) ELSE None

\* impl Provider for ProjectDirs :: new
ProjectDirs_new(platform) ==
    IF platform.home
    THEN [ok |-> TRUE,
          value |-> [k \in Kinds |-> ProjectDirs_get(platform, k)]]
    ELSE [ok |-> FALSE, err |-> [kind |-> "ProjectDirs"]]

(* ------------------------------ Env::new ------------------------------- *)

\* the closure x of Env::new
x(env, k) ==
    LET r == env_var(env, k) IN
    CASE r.tag = "Ok"         -> [ok |-> TRUE, value |-> Some(PathBuf_from(r.value))]
      [] r.tag = "NotPresent" -> [ok |-> TRUE, value |-> None]
      [] r.tag = "NotUnicode" ->
            [ok |-> FALSE,
             err |-> [kind |-> "Env", name |-> Key(k), value |-> r.value]]

\* The struct expression of Env::new evaluates its fields top to bottom and
\* `?` returns at the first Err. i is the next field, acc the fields built so
\* far, looked the keys handed to env::var so far.
RECURSIVE Env_new_from(_, _, _, _)
Env_new_from(env, i, acc, looked) ==
    IF i > Len(Fields)
    THEN [ok |-> TRUE, value |-> acc, lookups |-> looked]
    ELSE LET k == Fields[i]
             r == x(env, k)
         IN IF r.ok
            THEN Env_new_from(env, i + 1,
                              [acc EXCEPT ![k] = r.value],
                              Append(looked, Key(k)))
            ELSE [ok |-> FALSE, err |-> r.err,
                  lookups |-> Append(looked, Key(k))]

\* Env::new looking at every variable and reporting the last bad one
Env_new_last_error(env) ==
    LET bad == { i \in 1..Len(Fields) : ~x(env, Fields[i]).ok } IN
    IF bad = {}
    THEN [ok |-> TRUE, value |-> [k \in Kinds |-> x(env, k).value],
          lookups |-> [i \in 1..Len(Fields) |-> Key(Fields[i])]]
    ELSE [ok |-> FALSE,
          err |-> x(env, Fields[CHOOSE i \in bad : \A j \in bad : j <= i]).err,
          lookups |-> [i \in 1..Len(Fields) |-> Key(Fields[i])]]

\* impl Provider for Env :: new
Env_new(env) == Env_new_from(env, 1, [k \in Kinds |-> None], <<>>)

(* ----------------------------- Env::parity ----------------------------- *)

\* Env::_parity demanding all nine fields, the optional ones included
Env_parity_all_nine(self) ==
    IF \E k \in Kinds : self[k] = None
    THEN None
    ELSE Some([k \in Kinds |->
                 IF k \in Mandatory THEN Unwrap(self[k]) ELSE self[k]])

\* Env::_parity: None when a mandatory field is None, else every field taken
\* out of self (the mandatory ones unwrapped, the optional ones as they are)
Env_parity_(self) ==
    IF \/ self["cache_dir"] = None \/ self["config_dir"] = None
       \/ self["config_dir"] = None
       \/ self["config_local_dir"] = None \/ self["data_dir"] = None
       \/ self["data_local_dir"] = None \/ self["preference_dir"] = None
       \/ self["project_path"] = None
    THEN None
    ELSE Some([k \in Kinds |->
                 IF k \in Mandatory THEN Unwrap(self[k]) ELSE self[k]])

\* Env::parity: Ok(parity) or Err(self), self untouched on the Err path
Env_parity(self) ==
    LET p == Env_parity_(self) IN
    IF IsSome(p) THEN [ok |-> TRUE, value |-> Unwrap(p)]
                 ELSE [ok |-> FALSE, err |-> self]

\* impl From<EnvParity> for ProjectDirsOrEnv
From_EnvParity(value) == [k \in Kinds |-> value[k]]

(* ------------------------- ProjectDirsOrEnv::new ----------------------- *)

\* the Err(env) arm dropping the environment's values
Hybrid_platform_only(env, project_dirs) ==
    [k \in Kinds |->
        IF k \in Mandatory
        THEN PathBuf_from(Unwrap(project_dirs[k]))
        ELSE None]

\* the Err(env) arm: the struct built from env and project_dirs
Hybrid(env, project_dirs) ==
    [k \in Kinds |->
        IF k \in Mandatory
        THEN UnwrapOr(env[k], PathBuf_from(Unwrap(project_dirs[k])))
        ELSE None]

\* the entry of calls that stands for ProjectDirs::new(app_name)
PlatformCall == << "ProjectDirs::new", "CARGO_PKG_NAME" >>

\* ProjectDirsOrEnv::new. calls lists what the call asked of the outside
\* world: the keys given to env::var, then ProjectDirs::new if it was reached.
ProjectDirsOrEnv_new(env, platform) ==
    LET e == Env_new(env) IN
    IF ~e.ok
    THEN [ok |-> FALSE, err |-> e.err, calls |-> e.lookups]
    ELSE LET p == Env_parity(e.value) IN
         IF p.ok
         THEN [ok |-> TRUE, value |-> From_EnvParity(p.value),
               calls |-> e.lookups]
         ELSE LET d == ProjectDirs_new(platform) IN
              IF ~d.ok
              THEN [ok |-> FALSE, err |-> d.err,
                    calls |-> Append(e.lookups, PlatformCall)]
              ELSE [ok |-> TRUE, value |-> Hybrid(p.err, d.value),
                    calls |-> Append(e.lookups, PlatformCall)]

\* the accessors with config_local_dir returning the config_dir field
ProjectDirsOrEnv_get_pasted(self, k) ==
    IF k = "config_local_dir" THEN self["config_dir"] ELSE self[k]

\* impl ProjectDirsOrEnv: the nine accessors, a reference to the field
ProjectDirsOrEnv_get(self, k) == self[k]

(* ---------------------- the generated module: state -------------------- *)

\* the derived accessors a caller declares ($fn_name = $fn_expr;)
DerivedNames == { "logs_dir", "config_file" }

\* $fn_expr: a pure function of the published provider
fn_expr(name, p) ==
    CASE name = "logs_dir" ->
            PathBuf_from(<< ProjectDirsOrEnv_get(p, "data_dir").path, "logs" >>)
      [] name = "config_file" ->
            PathBuf_from(<< ProjectDirsOrEnv_get(p, "config_dir").path, "config.toml" >>)

\* one static VALUE declared outside the functions and shared by them
VALUE_cell_shared(name) == "logs_dir"

\* static VALUE is declared inside the body of fn $fn_name: one cell per name
VALUE_cell(name) == name

\* The environments and platforms the process is in when the generated
\* module is called: the seven mandatory variables set, only the cache
\* variable set, a variable that is not valid unicode; a platform without a
\* home directory and one with every directory.
EnvMandatory == [k \in Kinds |-> IF k \in Mandatory THEN "unicode" ELSE "unset"]

EnvCacheOnly == [k \in Kinds |-> IF k = "cache_dir" THEN "unicode" ELSE "unset"]

EnvNotUnicode == [EnvMandatory EXCEPT !["data_dir"] = "not_unicode"]

Environments == { EnvMandatory, EnvCacheOnly, EnvNotUnicode }

Linux == [home |-> TRUE, runtime_dir |-> TRUE, state_dir |-> TRUE]

ProcessPlatforms == { NoHome, Linux }

VARIABLES
    PROVIDER,   \* static PROVIDER: OnceLock<ProjectDirsOrEnv>, as an Option
    VALUE,      \* static VALUE: OnceLock<PathBuf> of each derived accessor
    pc,         \* where each thread is in the call it is making
    local,      \* what each thread holds between the steps of its call
    event,      \* what the most recent step evaluated and returned
    okCount,    \* history: how many initialize calls have returned Ok(())
    built,      \* history: the snapshot built by the call that returned Ok(())
    past        \* history: the last call that failed while PROVIDER was empty

vars == << PROVIDER, VALUE, pc, local, event, okCount, built, past >>

NoLocal == [arg |-> "", value |-> None, after |-> FALSE]

Pending == [tag |-> "Pending", value |-> <<>>]

Ok(v) == [tag |-> "Ok", value |-> v]

Err(e) == [tag |-> "Err", value |-> e]

Panic(msg) == [tag |-> "Panic", value |-> msg]

AlreadyInitialized == "project directories/env provider already initialized"

NotYetInitialized == "project directories/env provider not yet initialized"

\* op: the function called; ret: what it returned at this step; after: whether
\* PROVIDER was populated when an initialize call began, or at this step of
\* an accessor; new: the evaluation of ProjectDirsOrEnv::new made at this
\* step, if any
Event(op, ret, after, new) ==
    [op |-> op, ret |-> ret, after |-> after, new |-> new]

Init ==
    /\ PROVIDER = None
    /\ VALUE = [d \in DerivedNames |-> None]
    /\ pc = [t \in Threads |-> "idle"]
    /\ local = [t \in Threads |-> NoLocal]
    /\ event = Event("", Pending, FALSE, None)
    /\ okCount = 0
    /\ built = None
    /\ past = ""

(* ------------------------------ OnceLock ------------------------------- *)

\* a cell whose set replaces the value it holds
OnceLock_set_overwrite(cell, v) == [cell |-> Some(v), is_err |-> FALSE]

\* a cell whose set drops the value without telling a second writer
OnceLock_set_silent(cell, v) ==
    IF cell = None THEN [cell |-> Some(v), is_err |-> FALSE]
                   ELSE [cell |-> cell, is_err |-> FALSE]

\* OnceLock::set: stores only into an empty cell; Err(value) otherwise
OnceLock_set(cell, v) ==
    IF cell = None THEN [cell |-> Some(v), is_err |-> FALSE]
                   ELSE [cell |-> cell, is_err |-> TRUE]

\* OnceLock::get
OnceLock_get(cell) == cell

(* ------------------------------ initialize ----------------------------- *)

\* a snapshot of empty paths
EmptySnapshot ==
    [k \in Kinds |-> IF k \in Mandatory THEN PathBuf_from(<<>>) ELSE None]

\* best-effort initialization: a failed resolution goes on with empty paths
question_mark_lenient(r) ==
    IF r.ok THEN [return |-> FALSE, value |-> r.value]
            ELSE [return |-> FALSE, value |-> EmptySnapshot]

\* the `?` applied to ProjectDirsOrEnv::new(..): an Err leaves initialize at
\* once with the error converted by #[from]; an Ok hands on the value
question_mark(r) ==
    IF r.ok THEN [return |-> FALSE, value |-> r.value]
            ELSE [return |-> TRUE, value |-> r.err]

\* initialize, first half: the argument of PROVIDER.set is evaluated, and `?`
\* returns its error to the caller before set is reached
InitializeResolve(t, env, platform) ==
    /\ pc[t] = "idle"
    /\ LET r == ProjectDirsOrEnv_new(env, platform)
           q == question_mark(r)
           after == IsSome(PROVIDER)
           new == Some([env |-> env, platform |-> platform, result |-> r])
       IN IF q.return
          THEN /\ UNCHANGED << pc, local >>
               /\ event' = Event("initialize", Err(q.value), after, new)
               /\ past' = IF after THEN past ELSE "initialize"
          ELSE /\ pc' = [pc EXCEPT ![t] = "resolved"]
               /\ local' = [local EXCEPT ![t] =
                     [arg |-> "initialize", value |-> Some(q.value), after |-> after]]
               /\ event' = Event("initialize", Pending, after, new)
               /\ UNCHANGED past
    /\ UNCHANGED << PROVIDER, VALUE, okCount, built >>

\* initialize, second half: PROVIDER.set(..).is_err() panics, else Ok(())
InitializePublish(t) ==
    /\ pc[t] = "resolved"
    /\ LET s == OnceLock_set(PROVIDER, Unwrap(local[t].value)) IN
       /\ PROVIDER' = s.cell
       /\ event' = Event("initialize",
                         IF s.is_err THEN Panic(AlreadyInitialized) ELSE Ok(<<>>),
                         local[t].after, None)
       /\ okCount' = IF s.is_err THEN okCount ELSE okCount + 1
       /\ built' = IF s.is_err THEN built ELSE local[t].value
    /\ pc' = [pc EXCEPT ![t] = "idle"]
    /\ local' = [local EXCEPT ![t] = NoLocal]
    /\ UNCHANGED << VALUE, past >>

(* ------------------------------ accessors ------------------------------ *)

\* provider() falling back to empty paths instead of panicking
provider_lenient(cell) ==
    IF IsSome(OnceLock_get(cell))
    THEN [panic |-> FALSE, value |-> Unwrap(OnceLock_get(cell))]
    ELSE [panic |-> FALSE, value |-> EmptySnapshot]

\* provider(): PROVIDER.get().expect(..)
provider(cell) ==
    IF IsSome(OnceLock_get(cell))
    THEN [panic |-> FALSE, value |-> Unwrap(OnceLock_get(cell))]
    ELSE [panic |-> TRUE, value |-> NotYetInitialized]

\* cache_dir() .. state_dir(): provider().<kind>()
Accessor(t, k) ==
    /\ pc[t] = "idle"
    /\ LET p == provider(PROVIDER) IN
       event' = Event(k,
                      IF p.panic THEN Panic(p.value)
                      ELSE Ok(ProjectDirsOrEnv_get(p.value, k)),
                      IsSome(PROVIDER), None)
    /\ UNCHANGED << PROVIDER, VALUE, pc, local, okCount, built, past >>

\* VALUE.get_or_init, fast path: a populated cell is returned at once;
\* otherwise the thread goes on to the cell's Once
DerivedCall(t, d) ==
    /\ pc[t] = "idle"
    /\ LET c == VALUE_cell(d) IN
       IF IsSome(OnceLock_get(VALUE[c]))
       THEN /\ event' = Event(d, Ok(Unwrap(VALUE[c])), IsSome(PROVIDER), None)
            /\ UNCHANGED << pc, local >>
       ELSE /\ pc' = [pc EXCEPT ![t] = "get_or_init"]
            /\ local' = [local EXCEPT ![t] =
                  [arg |-> d, value |-> None, after |-> FALSE]]
            /\ event' = Event(d, Pending, IsSome(PROVIDER), None)
    /\ UNCHANGED << PROVIDER, VALUE, okCount, built, past >>

\* VALUE.get_or_init, slow path: one thread at a time is let into the cell's
\* Once. A thread let in after the cell was populated returns the cell's
\* value; otherwise it runs the closure, whose provider() may panic (the
\* panic propagates and the cell stays empty).
DerivedInit(t) ==
    /\ pc[t] = "get_or_init"
    /\ LET d == local[t].arg
           c == VALUE_cell(d)
       IN
       /\ \A u \in Threads :
             ~(pc[u] = "running" /\ VALUE_cell(local[u].arg) = c)
       /\ IF IsSome(VALUE[c])
          THEN /\ event' = Event(d, Ok(Unwrap(VALUE[c])), IsSome(PROVIDER), None)
               /\ pc' = [pc EXCEPT ![t] = "idle"]
               /\ local' = [local EXCEPT ![t] = NoLocal]
               /\ UNCHANGED past
          ELSE LET p == provider(PROVIDER) IN
               IF p.panic
               THEN /\ event' = Event(d, Panic(p.value), IsSome(PROVIDER), None)
                    /\ pc' = [pc EXCEPT ![t] = "idle"]
                    /\ local' = [local EXCEPT ![t] = NoLocal]
                    /\ past' = d
               ELSE /\ event' = Event(d, Pending, IsSome(PROVIDER), None)
                    /\ pc' = [pc EXCEPT ![t] = "running"]
                    /\ local' = [local EXCEPT ![t].value = Some(fn_expr(d, p.value))]
                    /\ UNCHANGED past
    /\ UNCHANGED << PROVIDER, VALUE, okCount, built >>

\* VALUE.get_or_init, end of the slow path: the closure's value is stored
\* and a reference to the stored value returned
DerivedStore(t) ==
    /\ pc[t] = "running"
    /\ LET d == local[t].arg
           c == VALUE_cell(d)
       IN
       /\ VALUE' = [VALUE EXCEPT ![c] = local[t].value]
       /\ event' = Event(d, Ok(Unwrap(VALUE'[c])), IsSome(PROVIDER), None)
    /\ pc' = [pc EXCEPT ![t] = "idle"]
    /\ local' = [local EXCEPT ![t] = NoLocal]
    /\ UNCHANGED << PROVIDER, okCount, built, past >>

(* ---------------------------- specifications --------------------------- *)

Next ==
    \E t \in Threads :
        \/ \E env \in Environments, platform \in ProcessPlatforms :
              InitializeResolve(t, env, platform)
        \/ InitializePublish(t)
        \/ \E k \in Kinds : Accessor(t, k)
        \/ \E d \in DerivedNames : DerivedCall(t, d)
        \/ DerivedInit(t)
        \/ DerivedStore(t)

Spec == Init /\ [][Next]_vars

\* The first evaluation of ProjectDirsOrEnv::new in a fresh process, over
\* every environment and every platform
NextNew ==
    /\ event.op = ""
    /\ \E env \in AllEnvironments, platform \in Platforms :
          InitializeResolve(1, env, platform)

SpecNew == Init /\ [][NextNew]_vars

(* ------------------- claims about ProjectDirsOrEnv::new ----------------- *)

\* the evaluations of ProjectDirsOrEnv::new the latest step made (at most one)
Evaluated == event.new

AllValid(env) == \A k \in Kinds : env[k] # "not_unicode"

EnvComplete(env) == \A k \in Mandatory : env[k] = "unicode"

\* the value a set, valid variable contributes to a snapshot
EnvPath(k) == PathBuf_from(Text(k))

\* the keys of the first n variables of the lookup order
KeysUpTo(n) == [i \in 1..n |-> Key(Fields[i])]

\* the position in the lookup order of the first variable that is not unicode
FirstBad(env) ==
    CHOOSE i \in 1..Len(Fields) :
        /\ env[Fields[i]] = "not_unicode"
        /\ \A j \in 1..(i - 1) : env[Fields[j]] # "not_unicode"

\* C1: when all seven mandatory variables are set to valid text, whatever the
\* optional two are, ProjectDirsOrEnv::new succeeds with a snapshot whose nine
\* fields are the environment's values verbatim (an optional kind absent
\* exactly when its variable is unset), and it never calls the platform
\* resolver, so it succeeds also where the platform has no home directory.
C1_EnvCompleteIsVerbatim ==
    \A n \in Evaluated :
        (AllValid(n.env) /\ EnvComplete(n.env)) =>
            /\ n.result.ok
            /\ \A k \in Mandatory : n.result.value[k] = EnvPath(k)
            /\ \A k \in Optional :
                  n.result.value[k] =
                     (IF n.env[k] = "unicode" THEN {EnvPath(k)} ELSE {})
            /\ \A i \in 1..Len(n.result.calls) : n.result.calls[i] # PlatformCall

\* an env-complete environment without the optional variables was resolved on
\* a platform that has no home directory
C1_Witness ==
    \E n \in Evaluated :
        /\ AllValid(n.env) /\ EnvComplete(n.env)
        /\ n.env["runtime_dir"] = "unset" /\ n.env["state_dir"] = "unicode"
        /\ ~n.platform.home
        /\ n.result.ok

\* C2: when the environment is valid, lacks at least one mandatory variable,
\* and the platform resolver succeeds, each mandatory kind of the snapshot is
\* its environment value if the variable is set and the platform's value for
\* that kind otherwise.
C2_HybridMandatoryPerField ==
    \A n \in Evaluated :
        (AllValid(n.env) /\ ~EnvComplete(n.env) /\ n.platform.home) =>
            /\ n.result.ok
            /\ \A k \in Mandatory :
                  n.result.value[k] =
                     (IF n.env[k] = "unicode" THEN EnvPath(k)
                      ELSE PathBuf_from(PlatformPath(k)))

\* some but not all mandatory variables were set and the merge took place
C2_Witness ==
    \E n \in Evaluated :
        /\ AllValid(n.env) /\ n.platform.home /\ n.result.ok
        /\ n.env["cache_dir"] = "unicode" /\ n.env["project_path"] = "unicode"
        /\ n.env["config_dir"] = "unset" /\ n.env["data_dir"] = "unset"
        /\ n.result.value["config_dir"] = PathBuf_from(PlatformPath("config_dir"))

\* C3: when at least one mandatory variable is unset, each optional kind of
\* the snapshot is its environment value if the variable is set, else the
\* platform's value for that kind if the platform has one, else absent.
C3_HybridOptionalPerField ==
    \A n \in Evaluated :
        (AllValid(n.env) /\ ~EnvComplete(n.env) /\ n.platform.home) =>
            /\ n.result.ok
            /\ \A k \in Optional :
                  n.result.value[k] =
                     (IF n.env[k] = "unicode" THEN {EnvPath(k)}
                      ELSE IF n.platform[k] THEN {PathBuf_from(PlatformPath(k))}
                      ELSE {})

\* C4: when some set variable is not valid text, ProjectDirsOrEnv::new fails
\* with the encoding error that names the first such variable of the lookup
\* order and carries its raw value, whatever the other variables are; the
\* variables after it are not looked up, nor is the platform resolver
\* called, and there is no snapshot.
C4_FirstBadVariableReported ==
    \A n \in Evaluated :
        ~AllValid(n.env) =>
            LET i == FirstBad(n.env) IN
            /\ ~n.result.ok
            /\ n.result.err =
                  [kind |-> "Env", name |-> Key(Fields[i]), value |-> Raw(Fields[i])]
            /\ n.result.calls = KeysUpTo(i)
            /\ event.ret = Err(n.result.err)

\* two variables were not valid text, with set and unset variables before
\* the first of them, and the call failed
C4_Witness ==
    \E n \in Evaluated :
        /\ n.env["cache_dir"] = "unicode" /\ n.env["config_dir"] = "unset"
        /\ n.env["config_local_dir"] = "not_unicode"
        /\ n.env["state_dir"] = "not_unicode"
        /\ ~n.result.ok

(* --------------------- claims about the generated module --------------- *)

\* the latest step ended a call of op (it did not merely advance it)
Returned(op) == event.op = op /\ event.ret.tag # "Pending"

\* thread t takes the step that applies PROVIDER.set
Publishes(t) == pc[t] = "resolved" /\ pc'[t] = "idle"

\* C5 as stated: every initialize call made after an initialize call has
\* succeeded ends in the already-initialized panic, whatever the environment
\* and the platform are at that time; it returns neither Ok nor an error.
C5_LaterInitializeAlwaysPanics ==
    (Returned("initialize") /\ event.after) =>
        event.ret = Panic(AlreadyInitialized)

\* C5 as amended: an initialize call made after an initialize call has
\* succeeded never returns Ok: it returns the encoding or home-directory
\* error of its own resolution when that fails, and otherwise ends in the
\* already-initialized panic.
C5_LaterInitializeNeverOk ==
    (Returned("initialize") /\ event.after) =>
        \/ /\ event.ret = Panic(AlreadyInitialized)
           /\ event.new = None
        \/ \E n \in event.new :
              /\ ~n.result.ok
              /\ event.ret = Err(n.result.err)

\* a call that began with PROVIDER populated resolved its directories and
\* panicked at PROVIDER.set
C5_Witness ==
    /\ Returned("initialize") /\ event.after
    /\ event.ret = Panic(AlreadyInitialized)
    /\ IsSome(PROVIDER)

\* C6: when threads run initialize concurrently and their resolutions
\* succeed, exactly one call returns Ok and every other one ends in the
\* already-initialized panic; PROVIDER holds the snapshot the successful call
\* built; a call that reaches PROVIDER.set is never made to wait, and a
\* losing call leaves PROVIDER as it is.
C6_RaceHasOneWinner ==
    /\ [](/\ okCount <= 1
          /\ (okCount = 1) = IsSome(PROVIDER)
          /\ PROVIDER = built
          /\ (event.op = "initialize" /\ event.ret.tag \in {"Ok", "Panic"})
                => okCount = 1
          /\ \A t \in Threads :
                pc[t] = "resolved" => ENABLED InitializePublish(t))
    /\ [][\A t \in Threads :
            Publishes(t) =>
               IF PROVIDER = None
               THEN /\ event'.ret = Ok(<<>>)
                    /\ PROVIDER' = local[t].value
               ELSE /\ event'.ret = Panic(AlreadyInitialized)
                    /\ PROVIDER' = PROVIDER]_vars

\* a call that began while PROVIDER was empty lost the race: it panicked, and
\* PROVIDER holds the winner's snapshot
C6_Witness ==
    /\ Returned("initialize") /\ ~event.after
    /\ event.ret = Panic(AlreadyInitialized)
    /\ okCount = 1 /\ PROVIDER = built

\* C7: an initialize call whose resolution fails returns that error at once
\* and publishes nothing: PROVIDER and the derived caches are after the call
\* what they were before it, an empty PROVIDER stays empty, and a call that
\* afterwards resolves its directories while PROVIDER is still empty
\* succeeds in publishing.
C7_FailedInitializePublishesNothing ==
    /\ [](/\ \A n \in event.new : ~n.result.ok => event.ret = Err(n.result.err)
          /\ (event.ret.tag = "Err" /\ ~event.after) => PROVIDER = None
          /\ (past = "initialize" /\ PROVIDER = None) =>
                \A t \in Threads :
                   pc[t] = "resolved" =>
                      ENABLED (InitializePublish(t) /\ event'.ret = Ok(<<>>)))
    /\ [][event'.ret.tag = "Err" =>
             /\ PROVIDER' = PROVIDER
             /\ VALUE' = VALUE
             /\ built' = built]_vars

\* an initialize call failed while PROVIDER was empty, and a later call has
\* returned Ok and published its snapshot
C7_Witness ==
    /\ past = "initialize"
    /\ Returned("initialize") /\ event.ret = Ok(<<>>)
    /\ IsSome(PROVIDER)

\* C8: every call of a derived accessor returns the accessor's function
\* applied to the published snapshot, whichever threads call it and however
\* they interleave; the accessor's cell goes from empty to populated at most
\* once and is not changed afterwards; a call changes no other accessor's
\* cell.
C8_DerivedAccessorsConverge ==
    /\ [](/\ \A d \in DerivedNames :
                IsSome(VALUE[d]) =>
                   /\ IsSome(PROVIDER)
                   /\ VALUE[d] = {fn_expr(d, Unwrap(PROVIDER))}
          /\ \A d \in DerivedNames :
                (event.op = d /\ event.ret.tag = "Ok") =>
                   /\ IsSome(PROVIDER)
                   /\ event.ret.value = fn_expr(d, Unwrap(PROVIDER)))
    /\ [][/\ \A d \in DerivedNames : IsSome(VALUE[d]) => VALUE'[d] = VALUE[d]
          /\ \A t \in Threads, d \in DerivedNames :
                (local[t].arg = d /\ pc[t] # pc'[t]) =>
                   \A d2 \in DerivedNames \ {d} : VALUE'[d2] = VALUE[d2]]_vars

\* a thread found the cell empty and, before it was let into the Once,
\* another thread populated the cell; the other accessor's cell is still empty
C8_Witness ==
    \E t \in Threads :
        /\ pc[t] = "get_or_init"
        /\ IsSome(VALUE[local[t].arg])
        /\ \E d \in DerivedNames : VALUE[d] = None

\* C9: once an initialize call has succeeded, no later operation changes the
\* published snapshot, and every call of a per-kind accessor returns the
\* field of that kind of the snapshot the successful call built.
C9_PublishedSnapshotIsFixed ==
    /\ [](/\ IsSome(PROVIDER) => PROVIDER = built
          /\ \A k \in Kinds :
                (event.op = k /\ event.ret.tag = "Ok") =>
                   /\ IsSome(built)
                   /\ event.ret.value = Unwrap(built)[k])
    /\ [][IsSome(PROVIDER) =>
             /\ PROVIDER' = PROVIDER
             /\ built' = built]_vars

\* a per-kind accessor returned while another initialize call, holding a
\* different snapshot, was about to reach PROVIDER.set
C9_Witness ==
    /\ event.op = "config_local_dir" /\ event.ret.tag = "Ok"
    /\ \E t \in Threads :
          /\ pc[t] = "resolved"
          /\ local[t].after
          /\ local[t].value # PROVIDER

\* C10: an accessor, per-kind or derived, that looks for the provider while
\* no initialize call has succeeded ends in the not-yet-initialized panic
\* and changes neither PROVIDER nor any derived cache; the cell of a derived
\* accessor that panicked this way stays empty until a call made after a
\* successful initialize fills it from the published snapshot.
C10_AccessorBeforeInitializePanics ==
    /\ [](/\ \A op \in Kinds \cup DerivedNames :
                (Returned(op) /\ ~event.after) =>
                   /\ event.ret = Panic(NotYetInitialized)
                   /\ PROVIDER = None
          /\ PROVIDER = None => \A d \in DerivedNames : VALUE[d] = None
          /\ (past \in DerivedNames /\ Returned(past) /\ event.ret.tag = "Ok") =>
                /\ IsSome(PROVIDER)
                /\ event.ret.value = fn_expr(past, Unwrap(PROVIDER)))
    /\ [][event'.ret = Panic(NotYetInitialized) =>
             /\ PROVIDER = None
             /\ PROVIDER' = PROVIDER
             /\ VALUE' = VALUE]_vars

\* a derived accessor panicked before initialization and, called again after
\* a successful initialize, returned its value
C10_Witness ==
    /\ past \in DerivedNames
    /\ Returned(past) /\ event.ret.tag = "Ok"
    /\ VALUE[past] # None

====
